---- MODULE Spec2Model ----
(***************************************************************************)
(* A model of vscodeGetVariableInfo.py: the three query functions          *)
(* _VSCODE_getVariableInfo, _VSCODE_getVariableProperties and              *)
(* _VSCODE_getVariableTypes.                                               *)
(*                                                                         *)
(* Python text (str) is a sequence of one-character strings.  An inspected *)
(* value is described by what each probe the code makes on it does: the    *)
(* probe yields something, reports "not there" (AttributeError, which      *)
(* hasattr turns into False), raises TypeError, or raises some other       *)
(* exception ("Error").                                                    *)
(***************************************************************************)
EXTENDS Integers, Sequences, FiniteSets, TLC

VARIABLES request, ret

vars == <<request, ret>>

(* ----------------------------- bounds ---------------------------------- *)

\* longest dimension list inside a rendered shape
MaxBody == 3
\* largest length a value reports
MaxLen == 2
\* longest requested attribute list
MaxAttrs == 3
\* longest values sequence of the batch query
MaxVars == 3
\* longest names sequence of the batch query
MaxNames == 2

(* ------------------------- text and slices ----------------------------- *)

Range(s) == {s[i] : i \in 1..Len(s)}

Min(a, b) == IF a <= b THEN a ELSE b

SeqsUpTo(S, n) == UNION {[1..k -> S] : k \in 0..n}

\* Python's s[a:b] on a str: negative bounds count from the end, both are
\* clamped into 0..len(s), and an empty range gives "".
SliceBound(s, i) == IF i < 0 THEN (IF Len(s) + i < 0 THEN 0 ELSE Len(s) + i) ELSE Min(i, Len(s))

PySlice(s, a, b) == SubSeq(s, SliceBound(s, a) + 1, SliceBound(s, b))

\* str.startswith
StartsWith(s, p) == Len(s) >= Len(p) /\ SubSeq(s, 1, Len(p)) = p

\* the marker of line 38
TorchPrefix == <<"t", "o", "r", "c", "h", ".", "S", "i", "z", "e", "(", "[">>

\* the slice bounds of line 39
TorchSliceStart == 12

TorchSliceEnd == -2

EagerTensor == <<"E", "a", "g", "e", "r", "T", "e", "n", "s", "o", "r">>

\* Python's None, distinct from every str
None == <<"None">>

(* ------------------------------ json ----------------------------------- *)

\* A dict is the sequence of its items in insertion order, keys unique.
\* A key is [kind, text]: kind "str" (text is the string), "int" (text is
\* its decimal rendering), "tuple" (hashable, not a JSON key) or "list"
\* (unhashable).  A value is [t, s, n]: a str s or an int n.
StrKey(s) == [kind |-> "str", text |-> s]

StrVal(s) == [t |-> "str", s |-> s, n |-> 0]

IntVal(n) == [t |-> "int", s |-> <<>>, n |-> n]

DictKeys(d) == {d[i].key : i \in 1..Len(d)}

DictGet(d, k) == d[CHOOSE i \in 1..Len(d) : d[i].key = k].val

\* d[k] = v: an existing key keeps its place and takes the new value
DictSet(d, k, v) ==
    IF k \in DictKeys(d)
    THEN [i \in 1..Len(d) |-> IF d[i].key = k THEN [key |-> k, val |-> v] ELSE d[i]]
    ELSE Append(d, [key |-> k, val |-> v])

RECURSIVE Digits(_)
Digits(n) ==
    IF n < 10
    THEN <<(<<"0", "1", "2", "3", "4", "5", "6", "7", "8", "9">>)[n + 1]>>
    ELSE Digits(n \div 10) \o Digits(n % 10)

\* json's string encoding: the quote and the backslash are escaped
JsonEscapeChar(c) == IF c = "\"" THEN <<"\\", "\"">> ELSE IF c = "\\" THEN <<"\\", "\\">> ELSE <<c>>

RECURSIVE JsonEscape(_)
JsonEscape(s) == IF s = <<>> THEN <<>> ELSE JsonEscapeChar(Head(s)) \o JsonEscape(Tail(s))

JsonString(s) == <<"\"">> \o JsonEscape(s) \o <<"\"">>

JsonValue(v) == IF v.t = "str" THEN JsonString(v.s) ELSE Digits(v.n)

RECURSIVE JsonItems(_)
JsonItems(d) ==
    IF d = <<>> THEN <<>>
    ELSE JsonString(Head(d).key.text) \o <<":", " ">> \o JsonValue(Head(d).val)
         \o (IF Tail(d) = <<>> THEN <<>> ELSE <<",", " ">> \o JsonItems(Tail(d)))

\* json.dumps refuses a key that is not str, int, float, bool or None
JsonKeysOk(d) == \A k \in DictKeys(d) : k.kind \in {"str", "int"}

JsonText(d) == <<"{">> \o JsonItems(d) \o <<"}">>

(* --------------------------- call outcomes ----------------------------- *)

Pending == [status |-> "pending", exc |-> "", result |-> <<>>, out |-> <<>>]

Raise(e) == [status |-> "raise", exc |-> e, result |-> <<>>, out |-> <<>>]

\* return _VSCODE_json.dumps(result)
JsonDumps(d) ==
    IF JsonKeysOk(d)
    THEN [status |-> "return", exc |-> "", result |-> d, out |-> JsonText(d)]
    ELSE Raise("TypeError")

(* ----------------------- _VSCODE_getVariableInfo ----------------------- *)

KeyShape == StrKey(<<"s", "h", "a", "p", "e">>)

KeyCount == StrKey(<<"c", "o", "u", "n", "t">>)

KeyType == StrKey(<<"t", "y", "p", "e">>)

\* lines 8-11: result = {}; shape ""; count 0; type ""
InfoDefaults == DictSet(DictSet(DictSet(<<>>, KeyShape, StrVal(<<>>)), KeyCount, IntVal(0)), KeyType, StrVal(<<>>))

\* A step of the function body: what it raised ("" when nothing), the
\* result dict so far, and the local typeName.
Step(exc, result, typeName) == [exc |-> exc, result |-> result, typeName |-> typeName]

\* lines 13-19.  tp is what type(var) and its __name__ do: kind "named"
\* (with the name), "noname" (hasattr is False), "TypeError" or "Error".
TypeProbe(tp, result) ==
    CASE tp.kind = "named" -> Step("", DictSet(result, KeyType, StrVal(tp.name)), tp.name)
      [] tp.kind = "noname" -> Step("", result, None)
      [] tp.kind = "TypeError" -> Step("", result, None)
      [] OTHER -> Step("Error", result, None)

\* ShapeGate with the type name compared to nothing: any named type opens the gate
ShapeGateAnyType(shape, typeName) == shape.isTuple \/ typeName # None

\* lines 26-28: isinstance(var.shape, tuple) or typeName is not None and typeName == "EagerTensor"
ShapeGate(shape, typeName) == shape.isTuple \/ (typeName # None /\ typeName = EagerTensor)

\* IsTupleText with the length test off by one
IsTupleTextMinLen4(s) == Len(s) >= 4 /\ s[1] = "(" /\ s[Len(s)] = ")" /\ "," \in Range(s)

\* IsTupleText without the separator test
IsTupleTextNoComma(s) == Len(s) >= 3 /\ s[1] = "(" /\ s[Len(s)] = ")"

\* lines 32-35
IsTupleText(s) == Len(s) >= 3 /\ s[1] = "(" /\ s[Len(s)] = ")" /\ "," \in Range(s)

\* TorchRewrite cutting one character too few at the end
TorchRewriteKeepsBracket(s) == <<"(">> \o PySlice(s, TorchSliceStart, TorchSliceEnd + 1) \o <<")">>

\* line 39
TorchRewrite(s) == <<"(">> \o PySlice(s, TorchSliceStart, TorchSliceEnd) \o <<")">>

\* lines 31-39: the dict after the text of the shape was examined
ShapeFromText(s, result) ==
    IF IsTupleText(s) THEN DictSet(result, KeyShape, StrVal(s))
    ELSE IF StartsWith(s, TorchPrefix) THEN DictSet(result, KeyShape, StrVal(TorchRewrite(s)))
    ELSE result

\* lines 22-42.  shape.get is what reading var.shape does ("absent", "ok",
\* "TypeError", "Error"), shape.isTuple whether it is a tuple instance,
\* shape.str what str() of it does ("ok" with shape.text, "TypeError",
\* "Error").  hasattr (line 22) is outside the try and lets everything but
\* AttributeError through; the try catches TypeError alone.
ShapeProbe(shape, st) ==
    CASE shape.get = "absent" -> st
      [] shape.get \in {"TypeError", "Error"} -> Step(shape.get, st.result, st.typeName)
      [] OTHER ->
           IF ~ShapeGate(shape, st.typeName) THEN st
           ELSE CASE shape.str = "ok" -> Step("", ShapeFromText(shape.text, st.result), st.typeName)
                  [] shape.str = "TypeError" -> st
                  [] OTHER -> Step("Error", st.result, st.typeName)

\* LenProbe that never stores the length it read
LenProbeIgnoresLength(len, st) ==
    CASE len.kind \in {"absent", "ok", "TypeError"} -> st
      [] OTHER -> Step("Error", st.result, st.typeName)

\* lines 44-48.  len.kind is "absent" (no __len__), "ok" (len(var) is
\* len.n), "TypeError" or "Error".
LenProbe(len, st) ==
    CASE len.kind = "absent" -> st
      [] len.kind = "ok" -> Step("", DictSet(st.result, KeyCount, IntVal(len.n)), st.typeName)
      [] len.kind = "TypeError" -> st
      [] OTHER -> Step("Error", st.result, st.typeName)

\* a raised exception ends the body: the later statements do not run
Then(st, next) == IF st.exc # "" THEN st ELSE next

getVariableInfo(var) ==
    LET s1 == TypeProbe(var.type, InfoDefaults)
        s2 == Then(s1, ShapeProbe(var.shape, s1))
        s3 == Then(s2, LenProbe(var.len, s2))
    IN  IF s3.exc # "" THEN Raise(s3.exc) ELSE JsonDumps(s3.result)

(* -------------------- _VSCODE_getVariableProperties -------------------- *)

\* PropertiesStep without the hasattr filter: a missing attribute raises
PropertiesStepNoHasattr(attrs, attr, st) ==
    IF attr.kind # "str" THEN Step("TypeError", st.result, None)
    ELSE CASE attrs[attr.text].kind = "ok" -> Step("", DictSet(st.result, attr, StrVal(attrs[attr.text].repr)), None)
           [] OTHER -> Step("Error", st.result, None)

\* One round of the comprehension of lines 55-59 for the name attr.
\* attrs maps an attribute name to what reading it does: kind "absent",
\* "ok" (repr() of it is the text repr), "getError" (the getter raises
\* something other than AttributeError) or "reprError" (repr() raises).
\* hasattr refuses a name that is not a str with TypeError.
PropertiesStep(attrs, attr, st) ==
    IF attr.kind # "str" THEN Step("TypeError", st.result, None)
    ELSE CASE attrs[attr.text].kind = "absent" -> st
           [] attrs[attr.text].kind = "ok" -> Step("", DictSet(st.result, attr, StrVal(attrs[attr.text].repr)), None)
           [] OTHER -> Step("Error", st.result, None)

RECURSIVE PropertiesLoop(_, _, _)
PropertiesLoop(attrs, listOfAttributes, st) ==
    IF listOfAttributes = <<>> \/ st.exc # "" THEN st
    ELSE PropertiesLoop(attrs, Tail(listOfAttributes), PropertiesStep(attrs, Head(listOfAttributes), st))

getVariableProperties(var, listOfAttributes) ==
    LET st == PropertiesLoop(var.attrs, listOfAttributes, Step("", <<>>, None))
    IN  IF st.exc # "" THEN Raise(st.exc) ELSE JsonDumps(st.result)

(* ----------------------- _VSCODE_getVariableTypes ---------------------- *)

\* zip(vars, varnames): the pairs of the positions both sequences have
Zip(a, b) == [i \in 1..Min(Len(a), Len(b)) |-> <<a[i], b[i]>>]

\* TypesStep that keeps the first type stored under a name
TypesStepKeepsFirst(tp, name, st) ==
    CASE tp.kind = "named" ->
           IF name.kind = "list" \/ name \in DictKeys(st.result) THEN st
           ELSE Step("", DictSet(st.result, name, StrVal(tp.name)), None)
      [] tp.kind \in {"noname", "TypeError"} -> st
      [] OTHER -> Step("Error", st.result, None)

\* lines 67-72 for one pair.  result[name] = ... raises TypeError for an
\* unhashable name, inside the try.
TypesStep(tp, name, st) ==
    CASE tp.kind = "named" ->
           IF name.kind = "list" THEN st
           ELSE Step("", DictSet(st.result, name, StrVal(tp.name)), None)
      [] tp.kind \in {"noname", "TypeError"} -> st
      [] OTHER -> Step("Error", st.result, None)

RECURSIVE TypesLoop(_, _)
TypesLoop(pairs, st) ==
    IF pairs = <<>> \/ st.exc # "" THEN st
    ELSE TypesLoop(Tail(pairs), TypesStep(Head(pairs)[1], Head(pairs)[2], st))

getVariableTypes(values, varnames) ==
    LET st == TypesLoop(Zip(values, varnames), Step("", <<>>, None))
    IN  IF st.exc # "" THEN Raise(st.exc) ELSE JsonDumps(st.result)

(* ------------------------------ inputs --------------------------------- *)

TypeNames == {<<"i", "n", "t">>, <<"T", "e", "n", "s", "o", "r">>, EagerTensor}

TypeProbes ==
    {[kind |-> "named", name |-> n] : n \in TypeNames}
    \cup {[kind |-> k, name |-> <<>>] : k \in {"noname", "TypeError", "Error"}}

DimChars == {"3", ",", " "}

TextPrefixes == {<<>>, <<"(">>, TorchPrefix, SubSeq(TorchPrefix, 1, 11)}

TextSuffixes == {<<>>, <<")">>, <<"]", ")">>}

ShapeTexts == {p \o b \o s : p \in TextPrefixes, b \in SeqsUpTo(DimChars, MaxBody), s \in TextSuffixes}

ShapeAttrs ==
    {[get |-> g, isTuple |-> FALSE, str |-> "ok", text |-> <<>>] : g \in {"absent", "TypeError", "Error"}}
    \cup {[get |-> "ok", isTuple |-> b, str |-> k, text |-> <<>>] : b \in BOOLEAN, k \in {"TypeError", "Error"}}
    \cup {[get |-> "ok", isTuple |-> b, str |-> "ok", text |-> t] : b \in BOOLEAN, t \in ShapeTexts}

LenAttrs ==
    {[kind |-> k, n |-> 0] : k \in {"absent", "TypeError", "Error"}}
    \cup {[kind |-> "ok", n |-> n] : n \in 0..MaxLen}

\* a call _VSCODE_getVariableInfo(var)
InfoRequest(t, s, l) == [fn |-> "info", var |-> [type |-> t, shape |-> s, len |-> l]]

AttrNames == {<<"a">>, <<"b">>, <<"c">>}

AttrReads ==
    {[kind |-> k, repr |-> <<>>] : k \in {"absent", "getError", "reprError"}}
    \cup {[kind |-> "ok", repr |-> r] : r \in {<<"1">>, <<"'", "x", "\"", "'">>}}

RequestedNames == {StrKey(n) : n \in AttrNames} \cup {[kind |-> "int", text |-> <<"1">>]}

\* a call _VSCODE_getVariableProperties(var, listOfAttributes)
PropertiesRequest(a, l) == [fn |-> "properties", var |-> [attrs |-> a], listOfAttributes |-> l]

BatchTypeNames == {<<"i", "n", "t">>, <<"s", "t", "r">>}

BatchTypeProbes ==
    {[kind |-> "named", name |-> n] : n \in BatchTypeNames}
    \cup {[kind |-> k, name |-> <<>>] : k \in {"noname", "TypeError", "Error"}}

BatchNames ==
    {StrKey(<<"n", "1">>), StrKey(<<"n", "2">>)}
    \cup {[kind |-> k, text |-> <<"1">>] : k \in {"int", "tuple", "list"}}

\* a call _VSCODE_getVariableTypes(vars, varnames)
TypesRequest(v, n) == [fn |-> "types", vars |-> v, varnames |-> n]

(* --------------------------- the state machine ------------------------- *)

Init ==
    /\ \/ \E t \in TypeProbes, s \in ShapeAttrs, l \in LenAttrs : request = InfoRequest(t, s, l)
       \/ \E a \in [AttrNames -> AttrReads], l \in SeqsUpTo(RequestedNames, MaxAttrs) :
             request = PropertiesRequest(a, l)
       \/ \E v \in SeqsUpTo(BatchTypeProbes, MaxVars), n \in SeqsUpTo(BatchNames, MaxNames) :
             request = TypesRequest(v, n)
    /\ ret = Pending

CallGetVariableInfo ==
    /\ request.fn = "info"
    /\ ret = Pending
    /\ ret' = getVariableInfo(request.var)
    /\ UNCHANGED request

CallGetVariableProperties ==
    /\ request.fn = "properties"
    /\ ret = Pending
    /\ ret' = getVariableProperties(request.var, request.listOfAttributes)
    /\ UNCHANGED request

CallGetVariableTypes ==
    /\ request.fn = "types"
    /\ ret = Pending
    /\ ret' = getVariableTypes(request.vars, request.varnames)
    /\ UNCHANGED request

Next == CallGetVariableInfo \/ CallGetVariableProperties \/ CallGetVariableTypes

Spec == Init /\ [][Next]_vars

(* ------------------------------ claims --------------------------------- *)

Called(f) == request.fn = f /\ ret # Pending

Returned(f) == request.fn = f /\ ret.status = "return"

ShapeField == DictGet(ret.result, KeyShape).s

CountField == DictGet(ret.result, KeyCount).n

TypeField == DictGet(ret.result, KeyType).s

\* the tuple form of a rendered shape: "(" ... ")" of 3 characters or more with a comma
TupleForm(s) == Len(s) >= 3 /\ Head(s) = "(" /\ s[Len(s)] = ")" /\ \E i \in 1..Len(s) : s[i] = ","

\* the form torch.Size([d1, ..., dn]) and its dimension list
TorchForm(s) == Len(s) >= 14 /\ SubSeq(s, 1, 12) = TorchPrefix /\ SubSeq(s, Len(s) - 1, Len(s)) = <<"]", ")">>

TorchDims(s) == SubSeq(s, 13, Len(s) - 2)

\* the shape attribute can be read and rendered
ShapeRenders == request.var.shape.get = "ok" /\ request.var.shape.str = "ok"

TypeIsEagerTensor == request.var.type.kind = "named" /\ request.var.type.name = EagerTensor

GateOpen == request.var.shape.isTuple \/ TypeIsEagerTensor

\* what each probe, taken alone, gives its field
ExpectedType == IF request.var.type.kind = "named" THEN request.var.type.name ELSE <<>>

ExpectedCount == IF request.var.len.kind = "ok" THEN request.var.len.n ELSE 0

ExpectedShape ==
    IF ShapeRenders /\ GateOpen
    THEN (IF TupleForm(request.var.shape.text) THEN request.var.shape.text
          ELSE IF StartsWith(request.var.shape.text, TorchPrefix)
               THEN <<"(">> \o TorchDims(request.var.shape.text) \o <<")">>
               ELSE <<>>)
    ELSE <<>>

\* C1: every call of the three query functions ends by returning a
\* well-formed serialized mapping, whatever the probes of the value do and
\* whatever the batch names are; no call ends in a raised error.
C1_Total ==
    ret # Pending =>
        /\ ret.status = "return"
        /\ Head(ret.out) = "{"
        /\ ret.out[Len(ret.out)] = "}"

\* C2: in _VSCODE_getVariableInfo a failing probe leaves its own field at
\* the default and the other two fields are what their own probes give: the
\* call returns with type, shape and count each as its probe alone decides.
C2_ProbesIndependent ==
    Called("info") =>
        /\ ret.status = "return"
        /\ TypeField = ExpectedType
        /\ ShapeField = ExpectedShape
        /\ CountField = ExpectedCount

\* C3: the count field of a returned descriptor is the value's length when
\* the value has a length, and 0 when it has no length protocol or the
\* length probe fails as not applicable; it is never another number.
C3_CountIsLengthOrZero ==
    Returned("info") =>
        /\ request.var.len.kind = "ok" => CountField = request.var.len.n
        /\ request.var.len.kind \in {"absent", "TypeError"} => CountField = 0
        /\ DictGet(ret.result, KeyCount).t = "int"

\* C3 witness: a value of length greater than 0 whose descriptor carries that length
C3_Witness ==
    /\ Returned("info")
    /\ request.var.len.kind = "ok"
    /\ request.var.len.n > 0
    /\ CountField = request.var.len.n

\* C4 as stated: every value whose shape renders as tuple-form text gets
\* that text as its shape field.
C4_TupleTextReported ==
    (Returned("info") /\ ShapeRenders /\ TupleForm(request.var.shape.text))
        => ShapeField = request.var.shape.text

\* C4 amended: with the shape attribute a tuple instance or the type name
\* exactly "EagerTensor", a shape rendering as tuple-form text is reported
\* unchanged by the returned descriptor.
C4_TupleTextReportedWhenGated ==
    (Returned("info") /\ ShapeRenders /\ GateOpen /\ TupleForm(request.var.shape.text))
        => ShapeField = request.var.shape.text

\* C4 witness: an EagerTensor whose shape is no tuple and renders as (3,), reported unchanged
C4_Witness ==
    /\ Returned("info")
    /\ ShapeRenders
    /\ TypeIsEagerTensor
    /\ ~request.var.shape.isTuple
    /\ request.var.shape.text = <<"(", "3", ",", ")">>
    /\ ShapeField = <<"(", "3", ",", ")">>

\* C5 as stated: every value whose shape renders as torch.Size([d1, ..., dn])
\* gets the shape field (d1, ..., dn).
C5_TorchTextRewritten ==
    (Returned("info") /\ ShapeRenders /\ TorchForm(request.var.shape.text))
        => ShapeField = <<"(">> \o TorchDims(request.var.shape.text) \o <<")">>

\* C5 amended: with the shape attribute a tuple instance or the type name
\* exactly "EagerTensor", a shape rendering as torch.Size([d1, ..., dn]) is
\* reported as (d1, ..., dn): the 12-character prefix and the 2-character
\* suffix are removed and the rest is wrapped in one pair of parentheses.
C5_TorchTextRewrittenWhenGated ==
    (Returned("info") /\ ShapeRenders /\ GateOpen /\ TorchForm(request.var.shape.text))
        => ShapeField = <<"(">> \o TorchDims(request.var.shape.text) \o <<")">>

\* C5 witness: a tuple-instance shape rendering as torch.Size([3,]), reported as (3,)
C5_Witness ==
    /\ Returned("info")
    /\ request.var.shape.isTuple
    /\ ShapeRenders
    /\ request.var.shape.text = TorchPrefix \o <<"3", ",">> \o <<"]", ")">>
    /\ ShapeField = <<"(", "3", ",", ")">>

\* the requested names the value possesses
Possessed ==
    {a \in Range(request.listOfAttributes) :
        a.kind = "str" /\ request.var.attrs[a.text].kind \in {"ok", "reprError"}}

\* the requested names the value lacks
Lacked ==
    {a \in Range(request.listOfAttributes) :
        a.kind = "str" /\ request.var.attrs[a.text].kind = "absent"}

\* C6: the mapping _VSCODE_getVariableProperties returns has as keys exactly
\* the requested names the value possesses, each mapped to the repr of the
\* attribute; names the value lacks are omitted and cause no error, and no
\* name outside the requested list appears.
C6_PropertiesKeys ==
    /\ Returned("properties") =>
        /\ DictKeys(ret.result) = Possessed
        /\ DictKeys(ret.result) \subseteq Range(request.listOfAttributes)
        /\ \A a \in DictKeys(ret.result) :
              DictGet(ret.result, a) = StrVal(request.var.attrs[a.text].repr)
    /\ (Called("properties") /\ Range(request.listOfAttributes) = Lacked) => ret.status = "return"
    /\ (Called("properties") /\ ret.status = "raise") =>
          \E a \in Range(request.listOfAttributes) \ Lacked :
              a.kind # "str" \/ request.var.attrs[a.text].kind # "ok"

\* C6 witness: three requested names, some lacking and one possessed, and a mapping of one key
C6_Witness ==
    /\ Returned("properties")
    /\ Lacked # {}
    /\ Possessed # {}
    /\ Len(request.listOfAttributes) = 3
    /\ Cardinality(DictKeys(ret.result)) = 1

\* the positions zip pairs
Paired == 1..Min(Len(request.vars), Len(request.varnames))

\* the paired positions whose value has a type name and whose name can be a key
Named == {i \in Paired : request.vars[i].kind = "named" /\ request.varnames[i].kind # "list"}

\* C7 as stated: the name at each paired position is mapped to the type
\* name of the value at that same position, and only names of paired
\* positions appear.
C7_PositionalPairing ==
    Returned("types") =>
        /\ DictKeys(ret.result) = {request.varnames[i] : i \in Named}
        /\ \A i \in Named : DictGet(ret.result, request.varnames[i]).s = request.vars[i].name

\* C7 amended: exactly the first min(m, n) positions are considered; a name
\* is mapped to the type name of the value at the last paired position that
\* carries this name (its own position when the name occurs once); no name
\* of a position beyond min(m, n) is added, and a call raises only because
\* of a paired position, never because the lengths differ.
C7_LastPositionWins ==
    /\ Returned("types") =>
        /\ DictKeys(ret.result) = {request.varnames[i] : i \in Named}
        /\ \A i \in Named :
              (\A j \in Named : request.varnames[j] = request.varnames[i] => j <= i)
                  => DictGet(ret.result, request.varnames[i]).s = request.vars[i].name
    /\ (Called("types") /\ ret.status = "raise") =>
          \E i \in Paired : request.vars[i].kind = "Error" \/ request.varnames[i].kind = "tuple"

\* C7 witness: three values and two equal names: the name carries the type of the second value
C7_Witness ==
    /\ Returned("types")
    /\ Len(request.vars) = 3
    /\ Len(request.varnames) = 2
    /\ request.varnames[1] = request.varnames[2]
    /\ request.vars[1].kind = "named"
    /\ request.vars[2].kind = "named"
    /\ request.vars[1].name # request.vars[2].name
    /\ DictGet(ret.result, request.varnames[1]).s = request.vars[2].name

\* C9 as stated: a non-empty shape field comes from tuple-form text (and
\* equals it) or from text prefixed by "torch.Size([" (and is its rewrite),
\* and every accepted shape is itself in tuple form.
C9_AcceptedShapeInTupleForm ==
    (Returned("info") /\ ShapeField # <<>>) =>
        /\ ShapeRenders
        /\ \/ TupleForm(request.var.shape.text) /\ ShapeField = request.var.shape.text
           \/ /\ StartsWith(request.var.shape.text, TorchPrefix)
              /\ ShapeField = <<"(">> \o TorchDims(request.var.shape.text) \o <<")">>
        /\ TupleForm(ShapeField)

\* C9 amended: a non-empty shape field comes from tuple-form text (and
\* equals it, so is in tuple form) or from text prefixed by "torch.Size(["
\* (and is its rewrite); every accepted shape begins with "(" and ends
\* with ")", but a rewritten one need not hold a comma or three characters.
C9_AcceptedShapeForms ==
    (Returned("info") /\ ShapeField # <<>>) =>
        /\ ShapeRenders
        /\ \/ TupleForm(request.var.shape.text) /\ ShapeField = request.var.shape.text
           \/ /\ StartsWith(request.var.shape.text, TorchPrefix)
              /\ ShapeField = <<"(">> \o TorchDims(request.var.shape.text) \o <<")">>
        /\ Len(ShapeField) >= 2
        /\ Head(ShapeField) = "("
        /\ ShapeField[Len(ShapeField)] = ")"

\* C9 witness: torch.Size([3]) rewritten to (3), an accepted shape without a comma
C9_Witness ==
    /\ Returned("info")
    /\ ShapeRenders
    /\ request.var.shape.text = TorchPrefix \o <<"3">> \o <<"]", ")">>
    /\ ShapeField = <<"(", "3", ")">>

\* C10: the text of the shape attribute is examined only behind the gate:
\* with the shape attribute no tuple instance and the type name not exactly
\* "EagerTensor" (or no type name at all) the shape field is "", whatever
\* the attribute renders as.
C10_GateClosed ==
    (Returned("info") /\ ~request.var.shape.isTuple /\ ~TypeIsEagerTensor) => ShapeField = <<>>

\* C10 witness: a tuple-form rendering behind a closed gate: the shape field stays empty
C10_Witness ==
    /\ Returned("info")
    /\ ShapeRenders
    /\ ~request.var.shape.isTuple
    /\ request.var.type.kind = "named"
    /\ request.var.type.name # EagerTensor
    /\ TupleForm(request.var.shape.text)
    /\ ShapeField = <<>>

====
